---- MODULE Spec2Model ----
(***************************************************************************)
(* Model of the log-update renderers of tokenring-ai/ink.                  *)
(*                                                                         *)
(* createStandard and createIncremental (src/unnamed/part_000) are         *)
(* closures over a few private variables; every operation runs to          *)
(* completion, so each operation is one action.  A string is a sequence    *)
(* of characters; the stream is observed through the sequence of write     *)
(* calls the last operation made, each write being the sequence of         *)
(* tokens (characters and escape primitives) of the string it was handed.  *)
(***************************************************************************)
EXTENDS Integers, Sequences, FiniteSets, TLC

VARIABLES
    kind,               \* "standard" | "incremental": what create() returned
    showCursor,         \* the showCursor option of create()
    previousOutput,     \* let previousOutput
    previousLines,      \* let previousLines (incremental)
    previousLineCount,  \* let previousLineCount (standard)
    hasHiddenCursor,    \* let hasHiddenCursor
    isInTallMode,       \* let isInTallMode (incremental)
    wantsTallMode,      \* let wantsTallMode (incremental)
    writes,             \* the stream.write calls of the last operation, in order
    cursorCalls,        \* the cliCursor calls of the last operation, in order
    threw,              \* whether the last operation threw
    lastOp,             \* the last operation, its argument and the stream.rows it saw
    prevOp,             \* the name of the operation before it
    pre,                \* the renderer's variables before the last operation
    term                \* the terminal behind the stream, where it is followed

vars == <<kind, showCursor, previousOutput, previousLines, previousLineCount,
          hasHiddenCursor, isInTallMode, wantsTallMode, writes, cursorCalls,
          threw, lastOp, prevOp, pre, term>>

-----------------------------------------------------------------------------
(* Bounds *)

\* A snapshot has at most MaxLines lines.
MaxLines == 3

\* The default height, when stream.rows is not available.
DefaultRows == 24

NL == "\n"

\* The contents a line of a snapshot is drawn from.
LineSet == {<<>>, <<"a">>}

\* The values of stream.rows: 0 stands for a stream without rows.
RowsSet == {0, 5}

-----------------------------------------------------------------------------
(* Strings *)

Min(a, b) == IF a < b THEN a ELSE b

RECURSIVE Join(_)
\* lines.join('\n')
Join(lines) ==
    IF Len(lines) = 0 THEN <<>>
    ELSE IF Len(lines) = 1 THEN lines[1]
    ELSE lines[1] \o <<NL>> \o Join(Tail(lines))

\* The snapshots handed to render and sync.
Snapshots == { Join(ls) : ls \in UNION { [1..n -> LineSet] : n \in 1..MaxLines } }

RECURSIVE SplitFrom(_, _, _)
\* s.split('\n'), scanning s from position i with the segment cur open
SplitFrom(s, i, cur) ==
    IF i > Len(s) THEN <<cur>>
    ELSE IF s[i] = NL THEN <<cur>> \o SplitFrom(s, i + 1, <<>>)
    ELSE SplitFrom(s, i + 1, Append(cur, s[i]))

\* s.split('\n'): never empty, one more segment than s holds newlines
Split(s) == SplitFrom(s, 1, <<>>)

\* str + '\n'
Output(str) == Append(str, NL)

\* output.slice(0, -1)
SliceLast(s) == IF Len(s) = 0 THEN <<>> ELSE SubSeq(s, 1, Len(s) - 1)

\* lines[i] with the 0-based index of the source
At(lines, i) == lines[i + 1]

-----------------------------------------------------------------------------
(* Tokens of the strings handed to stream.write *)

Tok(k, n, c) == [k |-> k, n |-> n, c |-> c]

Ch(c) == Tok("ch", 0, c)
Txt(s) == [i \in 1..Len(s) |-> Ch(s[i])]

EraseLines(n)  == <<Tok("eraseLines", n, "")>>
EraseLine      == <<Tok("eraseLine", 0, "")>>
CursorUp(n)    == <<Tok("cursorUp", n, "")>>
CursorTo0      == <<Tok("cursorTo", 0, "")>>
CursorNextLine == <<Tok("cursorNextLine", 0, "")>>
ClearTerminal  == <<Tok("clearTerminal", 0, "")>>
CursorLeft     == <<Tok("cursorLeft", 0, "")>>

-----------------------------------------------------------------------------
(* createIncremental: render *)

\* The closure variables of one createIncremental instance.
IncState(out, lines, hidden, tall, wants) ==
    [previousOutput |-> out, previousLines |-> lines, hasHiddenCursor |-> hidden,
     isInTallMode |-> tall, wantsTallMode |-> wants]

\* What an operation did: the variables it leaves, its stream.write calls and
\* its cliCursor calls.
Eff(st, w, c) == [st |-> st, writes |-> w, cursor |-> c]

\* A transition back to normal mode that erases lines instead of clearing the
\* terminal.
LeaveTallWrites_EraseLines(output) == <<EraseLines(DefaultRows), Txt(output)>>

\* The transition back to normal mode: clearTerminal, then the whole output.
LeaveTallWrites(output) == <<ClearTerminal, Txt(output)>>

\* A transition into tall mode that ends the last line with a newline too.
EnterTallWrites_AllTerminated(nextLines) ==
    <<ClearTerminal>>
    \o [i \in 1..(Len(nextLines) - 1) |-> Txt(At(nextLines, i - 1)) \o Txt(<<NL>>)]

\* The transition into tall mode: clearTerminal, every visible line but the
\* last with a newline, the last one without.
EnterTallWrites(nextLines) ==
    LET visibleCount == Len(nextLines) - 1
    IN  <<ClearTerminal>>
        \o [i \in 1..(visibleCount - 1) |-> Txt(At(nextLines, i - 1)) \o Txt(<<NL>>)]
        \o (IF visibleCount > 0 THEN <<Txt(At(nextLines, visibleCount - 1))>> ELSE <<>>)

RECURSIVE DivergenceScan(_, _, _, _)
\* the while loop over divergenceIndex
DivergenceScan(prevLines, nextLines, minCommittedLength, divergenceIndex) ==
    IF /\ divergenceIndex < minCommittedLength
       /\ At(nextLines, divergenceIndex) = At(prevLines, divergenceIndex)
    THEN DivergenceScan(prevLines, nextLines, minCommittedLength, divergenceIndex + 1)
    ELSE divergenceIndex

\* A divergence index that always restarts from the first line.
DivergenceIndex_FromTop(prevLines, nextLines) == 0

\* The first committed line at which the two snapshots differ.
DivergenceIndex(prevLines, nextLines) ==
    LET prevVisibleCount == Len(prevLines) - 1
        visibleCount == Len(nextLines) - 1
        minCommittedLength == Min(prevVisibleCount - 1, visibleCount - 1)
    IN  DivergenceScan(prevLines, nextLines, minCommittedLength, 0)

\* A render in tall mode that leaves the rows of a longer previous snapshot.
TallDiffWrites_NoBlanking(prevLines, nextLines) ==
    LET prevVisibleCount == Len(prevLines) - 1
        visibleCount == Len(nextLines) - 1
        divergenceIndex == DivergenceIndex(prevLines, nextLines)
        linesFromBottomToDivergence == (prevVisibleCount - 1) - divergenceIndex
    IN  (IF linesFromBottomToDivergence > 0
         THEN <<CursorUp(linesFromBottomToDivergence)>> ELSE <<>>)
        \o <<CursorTo0>>
        \o [i \in 1..(visibleCount - 1 - divergenceIndex) |->
               EraseLine \o Txt(At(nextLines, divergenceIndex + i - 1)) \o Txt(<<NL>>)]
        \o (IF visibleCount > 0
            THEN <<EraseLine \o Txt(At(nextLines, visibleCount - 1))>> ELSE <<>>)

\* The writes of a render in tall mode.
TallDiffWrites(prevLines, nextLines) ==
    LET prevVisibleCount == Len(prevLines) - 1
        visibleCount == Len(nextLines) - 1
        divergenceIndex == DivergenceIndex(prevLines, nextLines)
        linesFromBottomToDivergence == (prevVisibleCount - 1) - divergenceIndex
        extraLines == prevVisibleCount - visibleCount
    IN  (IF linesFromBottomToDivergence > 0
         THEN <<CursorUp(linesFromBottomToDivergence)>> ELSE <<>>)
        \o <<CursorTo0>>
        \o [i \in 1..(visibleCount - 1 - divergenceIndex) |->
               EraseLine \o Txt(At(nextLines, divergenceIndex + i - 1)) \o Txt(<<NL>>)]
        \o (IF visibleCount > 0
            THEN <<EraseLine \o Txt(At(nextLines, visibleCount - 1))>> ELSE <<>>)
        \o (IF prevVisibleCount > visibleCount
            THEN [i \in 1..extraLines |-> Txt(<<NL>>) \o EraseLine]
                 \o <<CursorUp(extraLines), CursorTo0>>
                 \o (IF visibleCount > 0
                     THEN <<Txt(At(nextLines, visibleCount - 1))>> ELSE <<>>)
            ELSE <<>>)

\* A special case that erases in one write and writes the output in another.
ShortFullWrites_TwoWrites(previousCount, output) ==
    <<EraseLines(previousCount), Txt(output)>>

\* A special case that writes the output without erasing what is tracked.
ShortFullWrites_NoErase(previousCount, output) == <<Txt(output)>>

\* The special case of normal mode: erase what is tracked, write the output.
ShortFullWrites(previousCount, output) ==
    <<EraseLines(previousCount) \o Txt(output)>>

\* A start of the buffer that does not erase the line the cursor rests on.
ShortDiffHead_NoSlot(previousCount, nextCount) ==
    IF nextCount < previousCount
    THEN EraseLines(previousCount - nextCount) \o CursorUp(nextCount - 1)
    ELSE CursorUp(previousCount - 1)

\* The start of the buffer: back to the top of the rendered output.
ShortDiffHead(previousCount, nextCount) ==
    IF nextCount < previousCount
    THEN EraseLines(previousCount - nextCount + 1) \o CursorUp(nextCount - 1)
    ELSE CursorUp(previousCount - 1)

\* A loop that rewrites every line, unchanged or not.
ShortDiffLine_AlwaysRewrite(prevLines, nextLines, i) ==
    EraseLine \o Txt(At(nextLines, i)) \o Txt(<<NL>>)

\* What the loop pushes for line i.
ShortDiffLine(prevLines, nextLines, i) ==
    IF i < Len(prevLines) /\ At(nextLines, i) = At(prevLines, i)
    THEN CursorNextLine
    ELSE EraseLine \o Txt(At(nextLines, i)) \o Txt(<<NL>>)

RECURSIVE ShortDiffLoop(_, _, _)
\* The chunks the loop pushes from line i on, joined.
ShortDiffLoop(prevLines, nextLines, i) ==
    IF i < Len(nextLines) - 1
    THEN ShortDiffLine(prevLines, nextLines, i)
         \o ShortDiffLoop(prevLines, nextLines, i + 1)
    ELSE <<>>

\* buffer.join('')
ShortDiffBuffer(prevLines, nextLines) ==
    ShortDiffHead(Len(prevLines), Len(nextLines))
    \o ShortDiffLoop(prevLines, nextLines, 0)

\* A branch choice that never looks at wantsTallMode.
RenderBranch_NoTransition(st, output) ==
    IF st.isInTallMode THEN "tallDiff"
    ELSE IF output = <<NL>> \/ Len(st.previousOutput) = 0 THEN "shortFull"
    ELSE "shortDiff"

\* The branch render takes once the output is known to differ.
RenderBranch(st, output) ==
    IF st.isInTallMode /\ ~st.wantsTallMode THEN "leaveTall"
    ELSE IF ~st.isInTallMode /\ st.wantsTallMode THEN "enterTall"
    ELSE IF st.isInTallMode THEN "tallDiff"
    ELSE IF output = <<NL>> \/ Len(st.previousOutput) = 0 THEN "shortFull"
    ELSE "shortDiff"

\* A no-op test that compares the snapshot without its newline.
IsNoOp_WithoutNewline(previousOut, output) == SliceLast(output) = previousOut

\* The no-op test of render.
IsNoOp(previousOut, output) == output = previousOut

\* render(str) of createIncremental, once the output is known to differ
IncRenderChanged(st, hidden, calls, output) ==
    LET nextLines == Split(output)
        branch == RenderBranch(st, output)
        w == CASE branch = "leaveTall" -> LeaveTallWrites(output)
               [] branch = "enterTall" -> EnterTallWrites(nextLines)
               [] branch = "tallDiff" -> TallDiffWrites(st.previousLines, nextLines)
               [] branch = "shortFull" -> ShortFullWrites(Len(st.previousLines), output)
               [] OTHER -> <<ShortDiffBuffer(st.previousLines, nextLines)>>
        tall == CASE branch = "leaveTall" -> FALSE
                  [] branch = "enterTall" -> TRUE
                  [] OTHER -> st.isInTallMode
    IN  Eff(IncState(output, nextLines, hidden, tall, st.wantsTallMode), w, calls)

\* A render that looks for a pending mode transition before the no-op test.
IncRender_TransitionFirst(st, show, str) ==
    LET hide == ~show /\ ~st.hasHiddenCursor
        hidden == IF hide THEN TRUE ELSE st.hasHiddenCursor
        calls == IF hide THEN <<"hide">> ELSE <<>>
        output == Output(str)
    IN  IF IsNoOp(st.previousOutput, output) /\ st.isInTallMode = st.wantsTallMode
        THEN Eff([st EXCEPT !.hasHiddenCursor = hidden], <<>>, calls)
        ELSE IncRenderChanged(st, hidden, calls, output)

\* render(str) of createIncremental
IncRender(st, show, str) ==
    LET hide == ~show /\ ~st.hasHiddenCursor
        hidden == IF hide THEN TRUE ELSE st.hasHiddenCursor
        calls == IF hide THEN <<"hide">> ELSE <<>>
        output == Output(str)
    IN  IF IsNoOp(st.previousOutput, output)
        THEN Eff([st EXCEPT !.hasHiddenCursor = hidden], <<>>, calls)
        ELSE IncRenderChanged(st, hidden, calls, output)

-----------------------------------------------------------------------------
(* createIncremental: the other operations *)

\* stream.rows || 24
GetTerminalHeight(r) == IF r = 0 THEN DefaultRows ELSE r

\* A clear that forgets the output but keeps the lines split from it.
IncClear_KeepsLines(st, r) ==
    Eff(IncState(<<>>, st.previousLines, st.hasHiddenCursor, FALSE, st.wantsTallMode),
        <<EraseLines(IF st.isInTallMode THEN GetTerminalHeight(r)
                     ELSE Len(st.previousLines))>>, <<>>)

\* A clear that erases the tracked lines in tall mode too.
IncClear_TrackedOnly(st, r) ==
    Eff(IncState(<<>>, <<>>, st.hasHiddenCursor, FALSE, st.wantsTallMode),
        <<EraseLines(Len(st.previousLines))>>, <<>>)

\* render.clear of createIncremental
IncClear(st, r) ==
    LET terminalHeight == GetTerminalHeight(r)
        linesToClear == IF st.isInTallMode THEN terminalHeight
                        ELSE Len(st.previousLines)
    IN  Eff(IncState(<<>>, <<>>, st.hasHiddenCursor, FALSE, st.wantsTallMode),
            <<EraseLines(linesToClear)>>, <<>>)

\* A done that also leaves tall mode, as clear does.
IncDone_LeavesTall(st, show) ==
    Eff(IncState(<<>>, <<>>, IF show THEN st.hasHiddenCursor ELSE FALSE,
                 FALSE, st.wantsTallMode),
        <<>>, IF show THEN <<>> ELSE <<"show">>)

\* A done that restores the cursor but keeps what is tracked.
IncDone_KeepsTracking(st, show) ==
    Eff([st EXCEPT !.hasHiddenCursor = IF show THEN st.hasHiddenCursor ELSE FALSE],
        <<>>, IF show THEN <<>> ELSE <<"show">>)

\* render.done of createIncremental
IncDone(st, show) ==
    Eff(IncState(<<>>, <<>>, IF show THEN st.hasHiddenCursor ELSE FALSE,
                 st.isInTallMode, st.wantsTallMode),
        <<>>, IF show THEN <<>> ELSE <<"show">>)

\* A sync that records the snapshot without its newline.
IncSync_WithoutNewline(st, str) ==
    Eff([st EXCEPT !.previousOutput = str, !.previousLines = Split(str)], <<>>, <<>>)

\* render.sync of createIncremental
IncSync(st, str) ==
    LET output == Output(str)
    IN  Eff([st EXCEPT !.previousOutput = output, !.previousLines = Split(output)],
            <<>>, <<>>)

\* A forceRedraw that clears and forgets, as clear does, without repainting.
IncForceRedraw_ClearOnly(st, show) ==
    Eff([st EXCEPT !.previousOutput = <<>>, !.previousLines = <<>>],
        <<ClearTerminal>>, <<>>)

\* render.forceRedraw of createIncremental
IncForceRedraw(st, show) ==
    LET output == st.previousOutput
        reset == [st EXCEPT !.previousOutput = <<>>, !.previousLines = <<>>]
        again == IncRender(reset, show, SliceLast(output))
    IN  IF Len(output) > 0
        THEN Eff(again.st, <<ClearTerminal>> \o again.writes, again.cursor)
        ELSE Eff(reset, <<ClearTerminal>>, <<>>)

\* A setTallMode that switches the mode at once instead of recording the wish.
IncSetTallMode_Eager(st, enabled) ==
    Eff([st EXCEPT !.wantsTallMode = enabled, !.isInTallMode = enabled], <<>>, <<>>)

\* render.setTallMode of createIncremental
IncSetTallMode(st, enabled) == Eff([st EXCEPT !.wantsTallMode = enabled], <<>>, <<>>)

\* render.wantsTallMode of createIncremental
IncWantsTallMode(st) == st.wantsTallMode

-----------------------------------------------------------------------------
(* createStandard *)

\* The closure variables of one createStandard instance.
StdState(out, count, hidden) ==
    [previousOutput |-> out, previousLineCount |-> count, hasHiddenCursor |-> hidden]

\* A render of createStandard that counts the visible lines only.
StdRender_CountVisible(st, show, str) ==
    LET hide == ~show /\ ~st.hasHiddenCursor
        hidden == IF hide THEN TRUE ELSE st.hasHiddenCursor
        calls == IF hide THEN <<"hide">> ELSE <<>>
        output == Output(str)
    IN  IF IsNoOp(st.previousOutput, output)
        THEN Eff([st EXCEPT !.hasHiddenCursor = hidden], <<>>, calls)
        ELSE Eff(StdState(output, Len(Split(output)) - 1, hidden),
                 <<EraseLines(st.previousLineCount) \o Txt(output)>>, calls)

\* render(str) of createStandard
StdRender(st, show, str) ==
    LET hide == ~show /\ ~st.hasHiddenCursor
        hidden == IF hide THEN TRUE ELSE st.hasHiddenCursor
        calls == IF hide THEN <<"hide">> ELSE <<>>
        output == Output(str)
    IN  IF IsNoOp(st.previousOutput, output)
        THEN Eff([st EXCEPT !.hasHiddenCursor = hidden], <<>>, calls)
        ELSE Eff(StdState(output, Len(Split(output)), hidden),
                 <<EraseLines(st.previousLineCount) \o Txt(output)>>, calls)

\* render.clear of createStandard (render.forceRedraw calls it)
StdClear(st) ==
    Eff(StdState(<<>>, 0, st.hasHiddenCursor), <<EraseLines(st.previousLineCount)>>, <<>>)

\* render.done of createStandard
StdDone(st, show) ==
    Eff(StdState(<<>>, 0, IF show THEN st.hasHiddenCursor ELSE FALSE),
        <<>>, IF show THEN <<>> ELSE <<"show">>)

\* render.sync of createStandard
StdSync(st, str) ==
    LET output == Output(str)
    IN  Eff(StdState(output, Len(Split(output)), st.hasHiddenCursor), <<>>, <<>>)

\* render.wantsTallMode of createStandard
StdWantsTallMode(st) == FALSE

-----------------------------------------------------------------------------
(* createIncremental of src/src/log-update.ts: the revision whose tall mode  *)
(* only appends.  Its clear, done, sync and setTallMode are those above.     *)

\* What string concatenation makes of a missing array element.
Undefined == <<"u", "n", "d", "e", "f", "i", "n", "e", "d">>

\* nextLines[i]! in a concatenation: the element, or undefined when the
\* array has no index i
LuAt(lines, i) == IF i \in 0..(Len(lines) - 1) THEN lines[i + 1] ELSE Undefined

\* The indices at which the tall-mode branch reads nextLines, in order.
LuTallReads(prevLines, nextLines) ==
    LET prevVisibleCount == Len(prevLines) - 1
        visibleCount == Len(nextLines) - 1
        newCommittedLines == visibleCount - prevVisibleCount
    IN  IF newCommittedLines > 0
        THEN <<prevVisibleCount - 1>>
             \o [k \in 1..(visibleCount - 1 - prevVisibleCount) |->
                    prevVisibleCount + k - 1]
             \o <<visibleCount - 1>>
        ELSE <<visibleCount - 1>>

\* The writes of the tall-mode branch: the active line is erased; what was
\* read is written, every element but the last with a newline.
LuTallWrites(prevLines, nextLines) ==
    LET reads == LuTallReads(prevLines, nextLines)
    IN  <<EraseLine \o CursorLeft>>
        \o [k \in 1..(Len(reads) - 1) |->
               Txt(LuAt(nextLines, reads[k])) \o Txt(<<NL>>)]
        \o <<Txt(LuAt(nextLines, reads[Len(reads)]))>>

\* render(str) of log-update.ts, once the output is known to differ
LuRenderChanged(st, hidden, calls, output) ==
    LET nextLines == Split(output)
        branch == RenderBranch(st, output)
        w == CASE branch = "leaveTall" -> LeaveTallWrites(output)
               [] branch = "enterTall" -> EnterTallWrites(nextLines)
               [] branch = "tallDiff" -> LuTallWrites(st.previousLines, nextLines)
               [] branch = "shortFull" -> ShortFullWrites(Len(st.previousLines), output)
               [] OTHER -> <<ShortDiffBuffer(st.previousLines, nextLines)>>
        tall == CASE branch = "leaveTall" -> FALSE
                  [] branch = "enterTall" -> TRUE
                  [] OTHER -> st.isInTallMode
    IN  Eff(IncState(output, nextLines, hidden, tall, st.wantsTallMode), w, calls)

\* render(str) of log-update.ts
LuRender(st, show, str) ==
    LET hide == ~show /\ ~st.hasHiddenCursor
        hidden == IF hide THEN TRUE ELSE st.hasHiddenCursor
        calls == IF hide THEN <<"hide">> ELSE <<>>
        output == Output(str)
    IN  IF IsNoOp(st.previousOutput, output)
        THEN Eff([st EXCEPT !.hasHiddenCursor = hidden], <<>>, calls)
        ELSE LuRenderChanged(st, hidden, calls, output)

\* render.forceRedraw of log-update.ts
LuForceRedraw(st, show) ==
    LET output == st.previousOutput
        reset == [st EXCEPT !.previousOutput = <<>>, !.previousLines = <<>>]
        again == LuRender(reset, show, SliceLast(output))
    IN  IF Len(output) > 0
        THEN Eff(again.st, <<ClearTerminal>> \o again.writes, again.cursor)
        ELSE Eff(reset, <<ClearTerminal>>, <<>>)

-----------------------------------------------------------------------------
(* The terminal behind the stream *)

Max(a, b) == IF a > b THEN a ELSE b

\* A terminal: whether it is followed, the rows of its screen from the top (a
\* row past the last one is blank), and the cursor's row and column, from 0.
Terminal(on, cells, row, col) == [on |-> on, cells |-> cells, row |-> row, col |-> col]

\* What the terminal showed before the renderer was created.
Shell == << <<"$">> >>

\* The terminal at creation: the cursor at the start of the row below Shell.
TermFresh == Terminal(TRUE, Shell, Len(Shell), 0)

\* A terminal that is not followed.
TermOff == Terminal(FALSE, <<>>, 0, 0)

RowAt(cells, r) == IF r < Len(cells) THEN cells[r + 1] ELSE <<>>

SetRow(cells, r, content) ==
    [i \in 1..Max(Len(cells), r + 1) |->
        IF i = r + 1 THEN content ELSE IF i <= Len(cells) THEN cells[i] ELSE <<>>]

\* A character written at column c of a row: over what is there, after blanks
\* when the row is shorter.
PutChar(line, c, ch) ==
    [i \in 1..Max(Len(line), c + 1) |->
        IF i = c + 1 THEN ch ELSE IF i <= Len(line) THEN line[i] ELSE " "]

\* ESC[2K: the cursor's row is blanked, the cursor stays.
TermEraseLine(t) == [t EXCEPT !.cells = SetRow(t.cells, t.row, <<>>)]

\* ESC[nA: up n rows (one when n is 0), not past the top of the screen.
TermCursorUp(t, n) == [t EXCEPT !.row = Max(0, t.row - (IF n = 0 THEN 1 ELSE n))]

RECURSIVE TermEraseLines(_, _)
\* ansiEscapes.eraseLines(n): erase-line and cursor-up n times, without the
\* last cursor-up, then cursor-left to column 0; nothing when n is 0.
TermEraseLines(t, n) ==
    IF n <= 0 THEN t
    ELSE IF n = 1 THEN [TermEraseLine(t) EXCEPT !.col = 0]
    ELSE TermEraseLines(TermCursorUp(TermEraseLine(t), 1), n - 1)

\* What one token of a write does to the terminal.
TermStep(t, tok) ==
    CASE tok.k = "ch" /\ tok.c = NL -> [t EXCEPT !.row = t.row + 1, !.col = 0]
      [] tok.k = "ch" /\ tok.c # NL ->
            [t EXCEPT !.cells = SetRow(t.cells, t.row,
                                       PutChar(RowAt(t.cells, t.row), t.col, tok.c)),
                      !.col = t.col + 1]
      [] tok.k = "eraseLine" -> TermEraseLine(t)
      [] tok.k = "eraseLines" -> TermEraseLines(t, tok.n)
      [] tok.k = "cursorUp" -> TermCursorUp(t, tok.n)
      [] tok.k = "cursorTo" -> [t EXCEPT !.col = tok.n]
      [] tok.k = "cursorLeft" -> [t EXCEPT !.col = 0]
      [] tok.k = "cursorNextLine" -> [t EXCEPT !.row = t.row + 1, !.col = 0]
      [] tok.k = "clearTerminal" -> Terminal(t.on, <<>>, 0, 0)

RECURSIVE TermWrite(_, _)
\* One stream.write: its tokens, in order.
TermWrite(t, toks) ==
    IF Len(toks) = 0 THEN t ELSE TermWrite(TermStep(t, Head(toks)), Tail(toks))

RECURSIVE TermWrites(_, _)
\* The stream.write calls of one operation, in order.
TermWrites(t, ws) ==
    IF Len(ws) = 0 THEN t ELSE TermWrites(TermWrite(t, Head(ws)), Tail(ws))

-----------------------------------------------------------------------------
(* The state machine *)

\* The variables of the instance, as one record.
Cur ==
    [previousOutput |-> previousOutput, previousLines |-> previousLines,
     previousLineCount |-> previousLineCount, hasHiddenCursor |-> hasHiddenCursor,
     isInTallMode |-> isInTallMode, wantsTallMode |-> wantsTallMode]

IncCur == IncState(previousOutput, previousLines, hasHiddenCursor, isInTallMode,
                   wantsTallMode)

StdCur == StdState(previousOutput, previousLineCount, hasHiddenCursor)

Op(name, str, enabled, r) == [op |-> name, str |-> str, enabled |-> enabled, rows |-> r]

\* let previousLines = []; let previousOutput = ''; ... of both closures
Constructed ==
    /\ kind \in {"standard", "incremental"}
    /\ showCursor \in BOOLEAN
    /\ previousOutput = <<>>
    /\ previousLines = <<>>
    /\ previousLineCount = 0
    /\ hasHiddenCursor = FALSE
    /\ isInTallMode = FALSE
    /\ wantsTallMode = FALSE
    /\ writes = <<>>
    /\ cursorCalls = <<>>
    /\ threw = FALSE
    /\ lastOp = Op("create", <<>>, FALSE, 0)
    /\ prevOp = "none"
    /\ pre = Cur

Init == Constructed /\ term = TermOff

\* An incremental renderer on a terminal that is followed.
InitTerm == Constructed /\ kind = "incremental" /\ term = TermFresh

\* What every operation records about itself.
Record(op) ==
    /\ lastOp' = op
    /\ prevOp' = lastOp.op
    /\ pre' = Cur
    /\ UNCHANGED <<kind, showCursor>>

\* The stream hands the writes of the operation to the terminal.
Shown(ws) == term' = IF term.on THEN TermWrites(term, ws) ELSE term

IncApply(eff, op) ==
    /\ kind = "incremental"
    /\ previousOutput' = eff.st.previousOutput
    /\ previousLines' = eff.st.previousLines
    /\ hasHiddenCursor' = eff.st.hasHiddenCursor
    /\ isInTallMode' = eff.st.isInTallMode
    /\ wantsTallMode' = eff.st.wantsTallMode
    /\ writes' = eff.writes
    /\ Shown(eff.writes)
    /\ cursorCalls' = eff.cursor
    /\ threw' = FALSE
    /\ UNCHANGED previousLineCount
    /\ Record(op)

StdApply(eff, op) ==
    /\ kind = "standard"
    /\ previousOutput' = eff.st.previousOutput
    /\ previousLineCount' = eff.st.previousLineCount
    /\ hasHiddenCursor' = eff.st.hasHiddenCursor
    /\ writes' = eff.writes
    /\ Shown(eff.writes)
    /\ cursorCalls' = eff.cursor
    /\ threw' = FALSE
    /\ UNCHANGED <<previousLines, isInTallMode, wantsTallMode>>
    /\ Record(op)

IncrementalRender ==
    \E str \in Snapshots :
        IncApply(IncRender(IncCur, showCursor, str), Op("render", str, FALSE, 0))

\* stream.rows is whatever the terminal reports when clear reads it
IncrementalClear ==
    \E r \in RowsSet :
        IncApply(IncClear(IncCur, r), Op("clear", <<>>, FALSE, r))

IncrementalDone ==
    IncApply(IncDone(IncCur, showCursor), Op("done", <<>>, FALSE, 0))

IncrementalSync ==
    \E str \in Snapshots :
        IncApply(IncSync(IncCur, str), Op("sync", str, FALSE, 0))

IncrementalForceRedraw ==
    IncApply(IncForceRedraw(IncCur, showCursor), Op("forceRedraw", <<>>, FALSE, 0))

IncrementalSetTallMode ==
    \E enabled \in BOOLEAN :
        IncApply(IncSetTallMode(IncCur, enabled), Op("setTallMode", <<>>, enabled, 0))

StandardRender ==
    \E str \in Snapshots :
        StdApply(StdRender(StdCur, showCursor, str), Op("render", str, FALSE, 0))

StandardClear ==
    StdApply(StdClear(StdCur), Op("clear", <<>>, FALSE, 0))

StandardDone ==
    StdApply(StdDone(StdCur, showCursor), Op("done", <<>>, FALSE, 0))

StandardSync ==
    \E str \in Snapshots :
        StdApply(StdSync(StdCur, str), Op("sync", str, FALSE, 0))

StandardForceRedraw ==
    StdApply(StdClear(StdCur), Op("forceRedraw", <<>>, FALSE, 0))

\* A setTallMode of createStandard that returns without an error.
StandardSetTallMode_Silent ==
    \E enabled \in BOOLEAN :
        /\ kind = "standard"
        /\ threw' = FALSE
        /\ writes' = <<>>
        /\ cursorCalls' = <<>>
        /\ UNCHANGED <<previousOutput, previousLines, previousLineCount,
                       hasHiddenCursor, isInTallMode, wantsTallMode, term>>
        /\ Record(Op("setTallMode", <<>>, enabled, 0))

\* render.setTallMode of createStandard: throws, whatever the argument
StandardSetTallMode ==
    \E enabled \in BOOLEAN :
        /\ kind = "standard"
        /\ threw' = TRUE
        /\ writes' = <<>>
        /\ cursorCalls' = <<>>
        /\ UNCHANGED <<previousOutput, previousLines, previousLineCount,
                       hasHiddenCursor, isInTallMode, wantsTallMode, term>>
        /\ Record(Op("setTallMode", <<>>, enabled, 0))

LogUpdateRender ==
    \E str \in Snapshots :
        IncApply(LuRender(IncCur, showCursor, str), Op("render", str, FALSE, 0))

LogUpdateForceRedraw ==
    IncApply(LuForceRedraw(IncCur, showCursor), Op("forceRedraw", <<>>, FALSE, 0))

Next ==
    \/ IncrementalRender
    \/ IncrementalClear
    \/ IncrementalDone
    \/ IncrementalSync
    \/ IncrementalForceRedraw
    \/ IncrementalSetTallMode
    \/ StandardRender
    \/ StandardClear
    \/ StandardDone
    \/ StandardSync
    \/ StandardForceRedraw
    \/ StandardSetTallMode

Spec == Init /\ [][Next]_vars

\* Renders and clears of an incremental renderer that is never asked for tall
\* mode, on a terminal that is followed.
NextShort ==
    \/ IncrementalRender
    \/ IncrementalClear

SpecShort == InitTerm /\ [][NextShort]_vars

\* Renders of an incremental renderer that is asked for tall mode and never
\* asked to leave it, on a terminal that is followed.
NextTall ==
    \/ IncrementalRender
    \/ IncrementalSetTallMode /\ wantsTallMode'

SpecTall == InitTerm /\ [][NextTall]_vars

\* The incremental renderer of src/src/log-update.ts.
InitLogUpdate == Init /\ kind = "incremental"

NextLogUpdate ==
    \/ LogUpdateRender
    \/ IncrementalClear
    \/ IncrementalDone
    \/ IncrementalSync
    \/ LogUpdateForceRedraw
    \/ IncrementalSetTallMode

SpecLogUpdate == InitLogUpdate /\ [][NextLogUpdate]_vars

-----------------------------------------------------------------------------
(* Reading the stream: helpers of the properties below *)

RECURSIVE Flatten(_)
\* The tokens of a sequence of writes, in the order the stream receives them.
Flatten(ws) == IF Len(ws) = 0 THEN <<>> ELSE Head(ws) \o Flatten(Tail(ws))

\* The characters among a sequence of tokens, in order.
Chars(toks) == SelectSeq(toks, LAMBDA t : t.k = "ch")

\* The escape primitives among a sequence of tokens, in order.
Prims(toks) == SelectSeq(toks, LAMBDA t : t.k # "ch")

\* The tokens of kind k among a sequence of tokens.
OfKind(toks, k) == SelectSeq(toks, LAMBDA t : t.k = k)

\* The last operation was a call of op.
Did(op) == lastOp.op = op

\* The candidate output of the last render or sync.
Candidate == Output(lastOp.str)

-----------------------------------------------------------------------------
(* C1 *)

\* C1: for both renderers, a render(x) immediately followed by a second
\* render(x) makes the second call emit no stream write and leave
\* previousOutput and the tracked lines (previousLines, previousLineCount)
\* unchanged.
C1_RenderIdempotent ==
    [][ (Did("render") /\ lastOp'.op = "render" /\ lastOp'.str = lastOp.str)
        => /\ writes' = <<>>
           /\ previousOutput' = previousOutput
           /\ previousLines' = previousLines
           /\ previousLineCount' = previousLineCount ]_vars

\* A second render(x) right after a render(x) that wrote x.
C1_Witness ==
    /\ Did("render") /\ prevOp = "render"
    /\ pre.previousOutput = Candidate
    /\ Len(lastOp.str) > 1
    /\ writes = <<>>

-----------------------------------------------------------------------------
(* C2 *)

\* C2: for both renderers, sync(x) emits no stream write and sets the tracked
\* state to that of x (previousOutput = x + newline, the tracked lines its
\* split), and a render(x) right after sync(x) emits no stream write.
C2_SyncRoundTrip ==
    [][ /\ lastOp'.op = "sync"
           => /\ writes' = <<>>
              /\ previousOutput' = Output(lastOp'.str)
              /\ kind = "incremental" => previousLines' = Split(Output(lastOp'.str))
              /\ kind = "standard" => previousLineCount' = Len(Split(Output(lastOp'.str)))
        /\ (Did("sync") /\ lastOp'.op = "render" /\ lastOp'.str = lastOp.str)
           => writes' = <<>> ]_vars

\* A render(x) right after a sync(x) that changed what was tracked.
C2_Witness ==
    /\ Did("render") /\ prevOp = "sync"
    /\ pre.previousOutput = Candidate
    /\ Len(lastOp.str) > 1
    /\ writes = <<>>

-----------------------------------------------------------------------------
(* C3 *)

\* The renderer is in short steady state: not tall, and not asked to be.
ShortSteady(p) == ~p.isInTallMode /\ ~p.wantsTallMode

\* The tokens of a buffer after its leading erase-lines and cursor-up.
RECURSIVE AfterHead(_)
AfterHead(toks) ==
    IF Len(toks) > 0 /\ Head(toks).k \in {"eraseLines", "cursorUp"}
    THEN AfterHead(Tail(toks))
    ELSE toks

\* The position of the first newline character among toks, Len(toks) if none.
FirstNewline(toks) ==
    LET at == { i \in 1..Len(toks) : toks[i] = Ch(NL) }
    IN  IF at = {} THEN Len(toks) ELSE CHOOSE i \in at : \A j \in at : i <= j

RECURSIVE LineChunks(_)
\* The body of a buffer cut into what it does line by line: a chunk is one
\* next-line primitive, or everything up to and including a newline.
LineChunks(toks) ==
    IF Len(toks) = 0 THEN <<>>
    ELSE IF Head(toks).k = "cursorNextLine"
         THEN <<SubSeq(toks, 1, 1)>> \o LineChunks(Tail(toks))
         ELSE LET n == FirstNewline(toks)
              IN  <<SubSeq(toks, 1, n)>> \o LineChunks(SubSeq(toks, n + 1, Len(toks)))

\* Line i of the new snapshot is line i of the tracked lines.
SameLine(prevLines, nextLines, i) ==
    i + 1 <= Len(prevLines) /\ nextLines[i + 1] = prevLines[i + 1]

\* The buffer steps over every unchanged visible line with the next-line
\* primitive alone, and emits every other one as erase-line, content, newline.
PreservesUnchanged(buffer, prevLines, nextLines) ==
    LET chunks == LineChunks(AfterHead(buffer))
        visible == Len(nextLines) - 1
    IN  /\ Len(chunks) = visible
        /\ \A i \in 0..(visible - 1) :
              IF SameLine(prevLines, nextLines, i)
              THEN chunks[i + 1] = CursorNextLine
              ELSE chunks[i + 1] = EraseLine \o Txt(nextLines[i + 1]) \o <<Ch(NL)>>

\* A render of the Incremental renderer in short steady state, over a tracked
\* output, with a candidate that differs from it.
ShortRedraw ==
    /\ kind = "incremental" /\ Did("render")
    /\ ShortSteady(pre)
    /\ Len(pre.previousOutput) > 0
    /\ Candidate # pre.previousOutput

\* The same, counting any erasure before a line's content and newline as the
\* erasure of a line that differs.
PreservesUnchangedAtLeast(buffer, prevLines, nextLines) ==
    LET chunks == LineChunks(AfterHead(buffer))
        visible == Len(nextLines) - 1
    IN  /\ Len(chunks) = visible
        /\ \A i \in 0..(visible - 1) :
              IF SameLine(prevLines, nextLines, i)
              THEN chunks[i + 1] = CursorNextLine
              ELSE Chars(chunks[i + 1]) = Txt(nextLines[i + 1]) \o <<Ch(NL)>>

\* C3 as stated: in short steady state with a non-empty previous output, the
\* single buffer render writes has the next-line primitive, and no erase-line
\* or rewrite, at every visible line equal to the tracked line of that index,
\* and an erasure, the content and a newline at every other one.
C3_AsStated ==
    ShortRedraw =>
        /\ Len(writes) = 1
        /\ PreservesUnchangedAtLeast(writes[1], pre.previousLines, Split(Candidate))

\* C3, amended: the same, for every candidate other than a single blank line
\* (for which render erases the tracked lines and writes the candidate whole).
C3_UnchangedLinesPreserved ==
    (ShortRedraw /\ Candidate # <<NL>>) =>
        /\ Len(writes) = 1
        /\ PreservesUnchanged(writes[1], pre.previousLines, Split(Candidate))

\* A redraw that shrinks the output, keeps line 0 and changes line 1.
C3_Witness ==
    /\ ShortRedraw /\ Candidate # <<NL>>
    /\ Len(Split(Candidate)) < Len(pre.previousLines)
    /\ SameLine(pre.previousLines, Split(Candidate), 0)
    /\ Len(Split(Candidate)) = 3
    /\ ~SameLine(pre.previousLines, Split(Candidate), 1)
    /\ OfKind(writes[1], "cursorNextLine") # <<>>

-----------------------------------------------------------------------------
(* C4 *)

\* The last operation ran render: a render call, or a forceRedraw with a
\* tracked output, which calls render once it has cleared the terminal.
RenderCalled == Did("render") \/ (Did("forceRedraw") /\ Len(pre.previousOutput) > 0)

\* The candidate of that render call.
RenderCandidate == IF Did("render") THEN Candidate ELSE pre.previousOutput

\* The stream writes of that render call.
RenderWrites == IF Did("render") THEN writes ELSE Tail(writes)

\* C4: every render call on the Incremental renderer that changes isInTallMode
\* emits clear-terminal exactly once, before any content and with no other
\* primitive; the content after it is the candidate's lines in order (with the
\* trailing newline when leaving tall mode, without it when entering it);
\* afterwards isInTallMode = wantsTallMode and previousOutput is the candidate.
C4_TransitionClearsOnce ==
    (kind = "incremental" /\ RenderCalled /\ isInTallMode # pre.isInTallMode) =>
        LET toks == Flatten(RenderWrites)
        IN  /\ Len(OfKind(toks, "clearTerminal")) = 1
            /\ <<toks[1]>> = ClearTerminal
            /\ Prims(toks) = ClearTerminal
            /\ Chars(toks) = IF isInTallMode THEN Txt(SliceLast(RenderCandidate))
                             ELSE Txt(RenderCandidate)
            /\ isInTallMode = wantsTallMode
            /\ previousOutput = RenderCandidate

\* A render of several lines that leaves tall mode.
C4_Witness ==
    /\ kind = "incremental" /\ Did("render")
    /\ pre.isInTallMode /\ ~isInTallMode
    /\ Len(pre.previousLines) > 2
    /\ Len(previousLines) > 2

-----------------------------------------------------------------------------
(* C5 *)

\* The lines of a snapshot: the newline-free strings that, joined by newlines,
\* give it.
LinesOf(str) ==
    CHOOSE ls \in UNION { [1..n -> LineSet] : n \in 1..MaxLines } : Join(ls) = str

\* C5: when isInTallMode is false, wantsTallMode is true and the candidate
\* differs from previousOutput, render writes clear-terminal, then every
\* visible line but the last followed by a newline, each in a write of its own,
\* then the last visible line without a newline, and sets isInTallMode.
C5_EnterTallFormat ==
    (/\ kind = "incremental" /\ Did("render")
     /\ ~pre.isInTallMode /\ pre.wantsTallMode
     /\ Candidate # pre.previousOutput) =>
        LET ls == LinesOf(lastOp.str)
            n == Len(ls)
        IN  /\ Len(writes) = n + 1
            /\ writes[1] = ClearTerminal
            /\ \A i \in 1..(n - 1) : writes[i + 1] = Txt(ls[i]) \o <<Ch(NL)>>
            /\ writes[n + 1] = Txt(ls[n])
            /\ isInTallMode

\* setTallMode(true), then a render of three lines on a fresh renderer: the
\* writes are clear-terminal, "a\n", "\n", "a".
C5_Witness ==
    /\ kind = "incremental" /\ Did("render") /\ prevOp = "setTallMode"
    /\ pre.previousOutput = <<>> /\ ~pre.isInTallMode /\ pre.wantsTallMode
    /\ lastOp.str = <<"a", NL, NL, "a">>
    /\ writes = <<ClearTerminal, Txt(<<"a", NL>>), Txt(<<NL>>), Txt(<<"a">>)>>
    /\ isInTallMode

-----------------------------------------------------------------------------
(* C6 *)

\* The tracked lines the render call of the last operation started from
\* (forceRedraw resets them before it calls render).
RenderPrevLines == IF Did("render") THEN pre.previousLines ELSE <<>>

\* A render call of the Incremental renderer in tall steady state whose
\* candidate differs from the tracked output.
TallRedraw ==
    /\ kind = "incremental" /\ RenderCalled
    /\ pre.isInTallMode /\ pre.wantsTallMode
    /\ Did("render") => Candidate # pre.previousOutput

\* The first index at which the committed lines (every visible line but the
\* last) common to both snapshots differ; their number when they agree.
FirstDifference(prevLines, nextLines) ==
    LET common == Min(Len(prevLines) - 2, Len(nextLines) - 2)
        diffs == { i \in 0..(common - 1) : prevLines[i + 1] # nextLines[i + 1] }
    IN  IF diffs # {} THEN CHOOSE i \in diffs : \A j \in diffs : i <= j
        ELSE IF common > 0 THEN common ELSE 0

RECURSIVE Touched(_, _)
\* The rows a sequence of tokens erases or writes on, for a cursor that starts
\* on row: cursor-up and newline move it, erase-line and characters touch its row.
Touched(toks, row) ==
    IF Len(toks) = 0 THEN {}
    ELSE LET t == Head(toks)
         IN  CASE t.k = "cursorUp" -> Touched(Tail(toks), row - t.n)
               [] t.k = "cursorNextLine" -> Touched(Tail(toks), row + 1)
               [] t.k = "ch" /\ t.c = NL -> Touched(Tail(toks), row + 1)
               [] t.k \in {"ch", "eraseLine"} -> {row} \cup Touched(Tail(toks), row)
               [] t.k = "eraseLines" ->
                    ((row - t.n + 1)..row) \cup Touched(Tail(toks), row - t.n + 1)
               [] OTHER -> Touched(Tail(toks), row)

RECURSIVE Before(_, _)
\* The tokens that come before the first token of kind k.
Before(toks, k) ==
    IF Len(toks) = 0 \/ Head(toks).k = k THEN <<>>
    ELSE <<Head(toks)>> \o Before(Tail(toks), k)

\* The new snapshot is the tracked one with one more line after it.
OneLineAppended(prevLines, nextLines) ==
    /\ Len(prevLines) >= 2
    /\ Len(nextLines) = Len(prevLines) + 1
    /\ SubSeq(nextLines, 1, Len(prevLines) - 1) = SubSeq(prevLines, 1, Len(prevLines) - 1)

\* C6: in tall steady state a render erases or writes no line whose index is
\* below the divergence index (the cursor resting on the last tracked visible
\* line, row 0 when nothing is tracked); the cursor-up it emits before it
\* rewrites is the one by (prevVisibleCount - 1) - divergenceIndex rows, and
\* only when that is positive; with one line appended it emits no cursor-up.
C6_TallAppendOnly ==
    TallRedraw =>
        LET prevLines == RenderPrevLines
            nextLines == Split(RenderCandidate)
            toks == Flatten(RenderWrites)
            prevVisibleCount == Len(prevLines) - 1
            d == FirstDifference(prevLines, nextLines)
            up == (prevVisibleCount - 1) - d
            rest == IF prevVisibleCount > 0 THEN prevVisibleCount - 1 ELSE 0
        IN  /\ \A r \in Touched(toks, rest) : r >= d
            /\ OfKind(toks, "clearTerminal") = <<>>
            /\ OfKind(toks, "eraseLines") = <<>>
            /\ OfKind(Before(toks, "eraseLine"), "cursorUp")
                 = IF up > 0 THEN CursorUp(up) ELSE <<>>
            /\ OneLineAppended(prevLines, nextLines)
                 => OfKind(toks, "cursorUp") = <<>>

\* A tall-mode render that keeps line 0, changes line 1 of three and so moves
\* the cursor up by one row, to line 1.
C6_Witness ==
    /\ TallRedraw /\ Did("render")
    /\ Len(pre.previousLines) = 4 /\ Len(previousLines) = 4
    /\ FirstDifference(pre.previousLines, previousLines) = 1
    /\ OfKind(Flatten(writes), "cursorUp") = CursorUp(1)
    /\ Touched(Flatten(writes), 2) = {1, 2}

-----------------------------------------------------------------------------
(* C7 *)

\* C7: for both renderers done() emits no stream write, and in the sequence
\* render(x); done(); render(x) the last render is not treated as unchanged:
\* it writes, and the characters it writes are the lines of x in order (x, or
\* x and its trailing newline).
C7_DoneResetsTracking ==
    [][ /\ lastOp'.op = "done" => writes' = <<>>
        /\ (/\ Did("done") /\ prevOp = "render"
            /\ lastOp'.op = "render"
            /\ Output(lastOp'.str) = pre.previousOutput)
           => /\ writes' # <<>>
              /\ Chars(Flatten(writes')) \in
                    {Txt(lastOp'.str), Txt(Output(lastOp'.str))} ]_vars

\* A render right after a done() issued in tall mode, rewriting three lines.
C7_Witness ==
    /\ kind = "incremental" /\ Did("render") /\ prevOp = "done"
    /\ pre.isInTallMode /\ pre.previousOutput = <<>>
    /\ Len(previousLines) = 4
    /\ Chars(Flatten(writes)) = Txt(lastOp.str)

-----------------------------------------------------------------------------
(* C8 *)

\* The construction-time state of a renderer whose wantsTallMode is wants.
Fresh(wants) == IncState(<<>>, <<>>, hasHiddenCursor, FALSE, wants)

\* C8: after done() or clear() the render state is the construction-time one
\* (previousOutput empty, no tracked lines, isInTallMode false), and the next
\* render(x) emits the writes a first render(x) on a new renderer with the same
\* wantsTallMode would emit.
C8_TeardownIsInitial ==
    (Did("done") \/ Did("clear")) =>
        /\ previousOutput = <<>>
        /\ previousLines = <<>>
        /\ previousLineCount = 0
        /\ ~isInTallMode
        /\ kind = "incremental" =>
              \A x \in Snapshots :
                  IncRender(IncCur, showCursor, x).writes
                      = IncRender(Fresh(wantsTallMode), showCursor, x).writes

-----------------------------------------------------------------------------
(* C9 *)

\* C9: on the Incremental renderer a render whose candidate is identical to
\* previousOutput emits no stream write and leaves previousOutput, the tracked
\* lines and isInTallMode unchanged, also when wantsTallMode differs from
\* isInTallMode.
C9_NoOpBeforeTransition ==
    (kind = "incremental" /\ Did("render") /\ Candidate = pre.previousOutput) =>
        /\ writes = <<>>
        /\ previousOutput = pre.previousOutput
        /\ previousLines = pre.previousLines
        /\ isInTallMode = pre.isInTallMode

\* A render of the tracked output while a transition into tall mode is pending.
C9_Witness ==
    /\ kind = "incremental" /\ Did("render") /\ Candidate = pre.previousOutput
    /\ pre.wantsTallMode /\ ~pre.isInTallMode
    /\ writes = <<>> /\ ~isInTallMode

-----------------------------------------------------------------------------
(* C10 *)

\* C10 as stated: on the Incremental renderer the render call right after
\* setTallMode(v) leaves isInTallMode equal to v, whatever its argument.
C10_AsStated ==
    (kind = "incremental" /\ Did("render") /\ prevOp = "setTallMode") =>
        isInTallMode = wantsTallMode

\* C10, amended: the render call right after setTallMode(v) leaves
\* isInTallMode equal to v when its candidate differs from previousOutput, and
\* leaves isInTallMode as it was when the candidate is identical to it.
C10_ModeRealizedOnChange ==
    (kind = "incremental" /\ Did("render") /\ prevOp = "setTallMode") =>
        /\ pre.wantsTallMode = wantsTallMode
        /\ isInTallMode = IF Candidate # pre.previousOutput THEN wantsTallMode
                          ELSE pre.isInTallMode

\* A render that follows setTallMode(false) in tall mode and leaves tall mode.
C10_Witness ==
    /\ kind = "incremental" /\ Did("render") /\ prevOp = "setTallMode"
    /\ pre.isInTallMode /\ ~pre.wantsTallMode
    /\ Candidate # pre.previousOutput
    /\ ~isInTallMode

-----------------------------------------------------------------------------
(* C11 *)

\* What the incremental renderer tracks besides the requested mode.
Tracking(s) ==
    <<s.previousOutput, s.previousLines, s.hasHiddenCursor, s.isInTallMode>>

\* C11: setTallMode of the incremental renderer changes nothing but the
\* requested mode: it writes nothing, neither hides nor shows the cursor, and
\* leaves previousOutput, the tracked lines and isInTallMode as they were.
\* wantsTallMode() is false on a new renderer and otherwise the argument of the
\* latest setTallMode, whatever render, clear, done, sync and forceRedraw did.
C11_SetTallModeOnlyRecords ==
    kind = "incremental" =>
        /\ Did("create") => ~IncWantsTallMode(IncCur)
        /\ Did("setTallMode") =>
            /\ writes = <<>>
            /\ cursorCalls = <<>>
            /\ Tracking(Cur) = Tracking(pre)
            /\ IncWantsTallMode(IncCur) = lastOp.enabled
        /\ lastOp.op \in {"render", "clear", "done", "sync", "forceRedraw"} =>
            IncWantsTallMode(IncCur) = pre.wantsTallMode

C11_Witness ==
    /\ kind = "incremental"
    /\ Did("setTallMode") /\ lastOp.enabled
    /\ ~pre.wantsTallMode /\ IncWantsTallMode(IncCur)
    /\ Len(pre.previousLines) = 3
    /\ ~isInTallMode

-----------------------------------------------------------------------------
(* C12 *)

\* C12: on the standard renderer setTallMode(true) and setTallMode(false)
\* always fail with an error, write nothing and leave previousOutput,
\* previousLineCount and hasHiddenCursor as they were; wantsTallMode() is
\* false in every reachable state; no other operation of either renderer
\* fails.
C12_StandardRejectsTallMode ==
    /\ kind = "standard" =>
        /\ ~StdWantsTallMode(StdCur)
        /\ Did("setTallMode") =>
            /\ threw
            /\ writes = <<>>
            /\ cursorCalls = <<>>
            /\ StdCur = StdState(pre.previousOutput, pre.previousLineCount,
                                 pre.hasHiddenCursor)
    /\ threw => kind = "standard" /\ Did("setTallMode")

C12_Witness ==
    /\ kind = "standard"
    /\ Did("setTallMode") /\ ~lastOp.enabled
    /\ threw
    /\ previousLineCount = 3 /\ hasHiddenCursor

-----------------------------------------------------------------------------
(* C13 *)

\* The newline-separated segments of s, the one after the last newline included.
Segments(s) == Cardinality({i \in 1..Len(s) : s[i] = NL}) + 1

\* What was on screen before the call, in segments: none when nothing is tracked.
SegmentsBefore == IF pre.previousOutput = <<>> THEN 0 ELSE Segments(pre.previousOutput)

\* C13: whenever the candidate differs from previousOutput, render of the
\* standard renderer makes exactly one write: the erase of exactly as many
\* lines as the last rendered or synced output has segments (none when
\* nothing is tracked), then the whole candidate.  Afterwards previousOutput
\* is the candidate and previousLineCount the number of its segments.
C13_StandardEraseThenRewrite ==
    (kind = "standard" /\ Did("render") /\ Candidate # pre.previousOutput) =>
        /\ pre.previousLineCount = SegmentsBefore
        /\ writes = <<EraseLines(SegmentsBefore) \o Txt(Candidate)>>
        /\ previousOutput = Candidate
        /\ previousLineCount = Segments(Candidate)

C13_Witness ==
    /\ kind = "standard"
    /\ Did("render") /\ prevOp = "sync"
    /\ Candidate # pre.previousOutput
    /\ pre.previousLineCount = 4
    /\ writes = <<EraseLines(4) \o Txt(Candidate)>>
    /\ previousLineCount = 2

-----------------------------------------------------------------------------
(* C14 *)

\* The cliCursor.show calls of the last operation.
ShowCalls == {i \in 1..Len(cursorCalls) : cursorCalls[i] = "show"}

\* C14: done() calls show only if hasHiddenCursor was true at the call (a
\* done() on an instance that has not hidden the cursor does not call show),
\* and clear() never calls show.
C14_ShowOnlyIfHidden ==
    /\ (Did("done") /\ ShowCalls # {}) => pre.hasHiddenCursor
    /\ Did("clear") => ShowCalls = {}

-----------------------------------------------------------------------------
(* C15 *)

-----------------------------------------------------------------------------
(* C16 *)

\* The height of the terminal at the last call: stream.rows as that call read
\* it, 24 when the stream has none.
HeightAtCall == IF lastOp.rows \in RowsSet \ {0} THEN lastOp.rows ELSE DefaultRows

\* C16: clear() of the incremental renderer makes a single write, the erase of
\* terminalHeight lines when isInTallMode is true and of exactly
\* previousLines.length lines otherwise (none when nothing is tracked).
\* Afterwards previousOutput is empty, no lines are tracked and isInTallMode
\* is false; wantsTallMode and the visibility of the cursor are unchanged.
C16_IncrementalClear ==
    (kind = "incremental" /\ Did("clear")) =>
        /\ writes = <<EraseLines(IF pre.isInTallMode THEN HeightAtCall
                                 ELSE Len(pre.previousLines))>>
        /\ pre.previousOutput = <<>> => Len(pre.previousLines) = 0
        /\ previousOutput = <<>>
        /\ previousLines = <<>>
        /\ ~isInTallMode
        /\ wantsTallMode = pre.wantsTallMode
        /\ hasHiddenCursor = pre.hasHiddenCursor
        /\ cursorCalls = <<>>

C16_Witness ==
    /\ kind = "incremental"
    /\ Did("clear") /\ lastOp.rows = 5
    /\ pre.isInTallMode /\ pre.wantsTallMode /\ pre.hasHiddenCursor
    /\ Len(pre.previousLines) = 3
    /\ writes = <<EraseLines(5)>>
    /\ ~isInTallMode /\ wantsTallMode /\ hasHiddenCursor

-----------------------------------------------------------------------------
(* C18 *)

\* C18: in short steady state, with a tracked output and a candidate other
\* than a single blank line, the buffer written starts with the erase of
\* previousCount - nextCount + 1 lines and the cursor-up of visibleCount rows
\* when nextCount < previousCount, and with the cursor-up of
\* previousCount - 1 rows otherwise (counts are segments, visibleCount is
\* nextCount - 1).  When the candidate is a single blank line or nothing was
\* tracked, render erases previousCount lines and writes the candidate whole.
C18_ShortReanchoring ==
    (/\ kind = "incremental" /\ Did("render")
     /\ ShortSteady(pre)
     /\ Candidate # pre.previousOutput) =>
        LET previousCount == SegmentsBefore
            nextCount == Segments(Candidate)
            visibleCount == nextCount - 1
        IN  /\ Len(pre.previousLines) = previousCount
            /\ Len(writes) = 1
            /\ IF Candidate = <<NL>> \/ pre.previousOutput = <<>>
               THEN writes[1] = EraseLines(previousCount) \o Txt(Candidate)
               ELSE IF nextCount < previousCount
               THEN /\ Len(writes[1]) >= 2
                    /\ SubSeq(writes[1], 1, 2)
                          = EraseLines(previousCount - nextCount + 1)
                            \o CursorUp(visibleCount)
                    /\ Len(OfKind(writes[1], "eraseLines")) = 1
                    /\ Len(OfKind(writes[1], "cursorUp")) = 1
               ELSE /\ Len(writes[1]) >= 1
                    /\ SubSeq(writes[1], 1, 1) = CursorUp(previousCount - 1)
                    /\ Len(OfKind(writes[1], "eraseLines")) = 0
                    /\ Len(OfKind(writes[1], "cursorUp")) = 1

\* From three visible lines to one: three lines erased, one row up.
C18_Witness ==
    /\ ShortRedraw
    /\ Len(pre.previousLines) = 4
    /\ Candidate = <<"a", NL>>
    /\ SubSeq(writes[1], 1, 2) = EraseLines(3) \o CursorUp(1)

-----------------------------------------------------------------------------
(* C20 *)

\* C20, as stated: in every reachable state of the incremental renderer, the
\* initial state and the states after clear() and done() included,
\* previousLines has as many elements as previousOutput.split('\n'), and its
\* last element is the empty sentinel.
C20_AsStated ==
    kind = "incremental" =>
        /\ Len(previousLines) = Len(Split(previousOutput))
        /\ previousLines[Len(previousLines)] = <<>>

\* C20, amended: whenever an output is tracked, previousLines has as many
\* elements as previousOutput has segments and its last element is the empty
\* sentinel; when previousOutput is empty (at construction, after clear() and
\* after done()), previousLines is empty.
C20_LinesMatchOutput ==
    kind = "incremental" =>
        IF previousOutput = <<>>
        THEN previousLines = <<>>
        ELSE /\ Len(previousLines) = Segments(previousOutput)
             /\ previousLines[Len(previousLines)] = <<>>
             /\ Join(previousLines) = previousOutput

C20_Witness ==
    /\ kind = "incremental"
    /\ Did("clear")
    /\ Len(pre.previousLines) = 4 /\ pre.previousLines[4] = <<>>
    /\ previousOutput = <<>> /\ previousLines = <<>>

-----------------------------------------------------------------------------
(* C17 *)

\* The lines the last operation left to be seen: those of the snapshot of a
\* render, none after clear and at creation.
LatestLines == IF Did("render") THEN LinesOf(lastOp.str) ELSE <<>>

\* Rows first, first + 1, ... of the terminal show lines, in order.
ShowsAt(first, lines) ==
    \A i \in 1..Len(lines) : RowAt(term.cells, first + i - 1) = lines[i]

\* Every row of the terminal from row first on is blank.
BlankFrom(first) ==
    \A r \in 0..Len(term.cells) : r >= first => RowAt(term.cells, r) = <<>>

\* C17: for an incremental renderer that starts fresh and stays in short
\* mode, after any sequence of render and clear calls the rows of its region
\* (from the row the cursor was on at creation) show, in order, the visible
\* lines of the latest rendered snapshot (none after clear), every row below
\* them is blank, what was above the region is untouched, and the cursor is
\* at column 0 of the row just below the last visible line.
C17_ShortModeMatchesSnapshot ==
    term.on =>
        /\ ShowsAt(0, Shell)
        /\ ShowsAt(Len(Shell), LatestLines)
        /\ BlankFrom(Len(Shell) + Len(LatestLines))
        /\ term.row = Len(Shell) + Len(LatestLines)
        /\ term.col = 0

\* Three visible lines have shrunk to one, after a clear and a growth.
C17_Witness ==
    /\ term.on
    /\ Did("render") /\ prevOp = "render"
    /\ Len(pre.previousLines) = 4 /\ At(pre.previousLines, 0) = <<"a">>
    /\ LatestLines = << <<"a">> >>
    /\ Len(term.cells) >= Len(Shell) + 3
    /\ term.row = Len(Shell) + 1

-----------------------------------------------------------------------------
(* C19 *)

\* A render of a renderer that is asked for tall mode and is in it afterwards.
TallRendered ==
    /\ term.on
    /\ Did("render") /\ pre.wantsTallMode
    /\ isInTallMode

\* The writes that blank one row: a newline, then erase-line.
BlankingWrites == {i \in 1..Len(writes) : writes[i] = Txt(<<NL>>) \o EraseLine}

\* C19: for an incremental renderer that entered tall mode through a render
\* and is rendered with wantsTallMode true (content growing, shrinking or
\* changing in place), after every render the rows show the visible lines of
\* the latest snapshot, each row the previous snapshot occupied beyond the
\* new last line has been blanked by a newline + erase-line, and the cursor
\* is on the last visible line at the end of its content.
C19_TallModeRestingPosition ==
    TallRendered =>
        LET last == Len(LatestLines)
            shrunk == (Len(pre.previousLines) - 1) - last
        IN  /\ ShowsAt(0, LatestLines)
            /\ BlankFrom(last)
            /\ term.row = last - 1
            /\ term.col = Len(LatestLines[last])
            /\ (pre.isInTallMode /\ shrunk > 0) => Cardinality(BlankingWrites) = shrunk

\* Three visible lines of tall mode have shrunk to one that is not blank.
C19_Witness ==
    /\ TallRendered /\ pre.isInTallMode
    /\ Len(pre.previousLines) = 4 /\ At(pre.previousLines, 2) = <<"a">>
    /\ LatestLines = << <<"a">> >>
    /\ Cardinality(BlankingWrites) = 2
    /\ term.row = 0 /\ term.col = 1

-----------------------------------------------------------------------------
(* C21 *)

\* The last operation changed isInTallMode.
Flipped == kind = "incremental" /\ isInTallMode # pre.isInTallMode

\* The last operation cleared the terminal and wrote the whole tracked content
\* after it: clear-terminal first, no other escape primitive, and the
\* characters of the output (its last newline left out in tall mode).
FullRepaint ==
    /\ Len(writes) >= 2
    /\ writes[1] = ClearTerminal
    /\ \A i \in 1..Len(Prims(Flatten(writes))) :
           Prims(Flatten(writes))[i].k = "clearTerminal"
    /\ Chars(Flatten(writes)) =
           Txt(IF isInTallMode THEN SliceLast(previousOutput) ELSE previousOutput)

\* C21, as stated: each operation that changes isInTallMode writes, in that
\* same operation, clear-terminal followed by a rewrite of the content;
\* isInTallMode never changes in an operation that writes only an erase or
\* nothing.
C21_AsStated == Flipped => FullRepaint

\* C21, amended: a render or a forceRedraw that changes isInTallMode writes,
\* in that same operation, clear-terminal followed by the whole content and
\* no other primitive; the only other operation that changes isInTallMode is
\* clear() in tall mode, which sets it to false with its single erase of
\* terminalHeight lines; done, sync and setTallMode never change it.
C21_FlipIsRepaintOrClear ==
    Flipped =>
        \/ /\ lastOp.op \in {"render", "forceRedraw"}
           /\ FullRepaint
        \/ /\ Did("clear")
           /\ pre.isInTallMode
           /\ writes = <<EraseLines(HeightAtCall)>>

\* A forceRedraw that realizes the requested tall mode.
C21_Witness ==
    /\ Flipped
    /\ Did("forceRedraw")
    /\ isInTallMode
    /\ Len(previousLines) = 3
    /\ FullRepaint

-----------------------------------------------------------------------------
(* C22 *)

\* The places where the output of another writer of the stream can land
\* during the last operation: between two of its stream.write calls.
Gaps == {i \in 1..Len(writes) : i < Len(writes)}

\* The last operation was a render in short mode: any render of the standard
\* renderer, a render of the incremental one in short steady state.
ShortModeRender ==
    /\ Did("render")
    /\ kind = "incremental" => ShortSteady(pre)

\* C22: every render of the standard renderer, and every render of the
\* incremental renderer in short steady state (special case or diff), makes
\* at most one stream.write, so no output of another writer of the stream can
\* land between the re-anchoring of the cursor and the last rewritten line:
\* the one write holds the re-anchoring and every character written.
C22_ShortModeOneWrite ==
    ShortModeRender =>
        /\ Len(writes) <= 1
        /\ Gaps = {}
        /\ Candidate # pre.previousOutput => Len(writes) = 1

\* A short-mode diff that re-anchors, steps over a line and rewrites another.
C22_Witness ==
    /\ ShortRedraw
    /\ Len(writes) = 1
    /\ Len(OfKind(writes[1], "cursorUp")) = 1
    /\ Len(OfKind(writes[1], "cursorNextLine")) = 1
    /\ Len(OfKind(writes[1], "eraseLine")) = 2

-----------------------------------------------------------------------------
(* C23 *)

\* The indices the tall-mode branch of the render call of the last operation
\* read from the candidate's lines.
TallBranchReads == LuTallReads(RenderPrevLines, Split(RenderCandidate))

\* The text of a write: its characters, in order.
TextOf(toks) == [i \in 1..Len(Chars(toks)) |-> Chars(toks)[i].c]

\* C23: in src/src/log-update.ts, across any sequence of render, clear, done,
\* sync, forceRedraw and setTallMode calls, every index at which the
\* tall-mode branch of render reads the candidate's lines lies in
\* 0..visibleCount-1, so every write it makes is an escape primitive or a
\* line of the candidate (with or without its newline), never a missing
\* element.
C23_TallReadsRealLines ==
    TallRedraw =>
        LET nextLines == Split(RenderCandidate)
            visibleCount == Len(nextLines) - 1
        IN  /\ \A k \in 1..Len(TallBranchReads) :
                   TallBranchReads[k] \in 0..(visibleCount - 1)
            /\ \A w \in 1..Len(RenderWrites) :
                   \/ Chars(RenderWrites[w]) = <<>>
                   \/ \E i \in 0..(visibleCount - 1) :
                          TextOf(RenderWrites[w]) \in {At(nextLines, i),
                                                       Append(At(nextLines, i), NL)}

====
